---- MODULE Spec2Model ----
(***************************************************************************)
(* The live voice-call pipeline of the two call components:                *)
(*   VoiceAgent  src/frontend-react/src/pages/VoiceAgent.jsx               *)
(*   App         src/unnamed/part_002                                      *)
(* Every handler (UI click, transport callback, timer, audio callback,     *)
(* continuation of an await) runs to completion on one event loop and is   *)
(* one action.  Times are in tenths of a second.                           *)
(***************************************************************************)
EXTENDS Integers, Sequences, FiniteSets, TLC

\* ---- bounds of the model ----
MaxCalls == 2
MaxCallsSmall == 1
MaxClock == 1
MaxDur == 2
MaxSources == 2
MaxTimers == 1
MaxText == 1
MaxOdd == 1
SubGrid == 2
MaxFaults == 1
MaxLogCursor == 1

\* ---- program constants ----
null == 0
LogCap == 20
Int16Scale == 32768

CallStatus ==
  [IDLE |-> "IDLE", CONNECTING |-> "CONNECTING", ACTIVE |-> "ACTIVE",
   ENDED |-> "ENDED", ERROR |-> "ERROR"]

Components == {"VoiceAgent", "App"}
Calls == 1..(IF MaxCalls >= MaxCallsSmall THEN MaxCalls ELSE MaxCallsSmall)

VARIABLES
  comp,               \* which of the two components is mounted
  apiKey,             \* VoiceAgent: VITE_GEMINI_API_KEY is configured
  status,             \* useState(CallStatus.IDLE)
  isMuted,            \* useState(false)
  isModelSpeaking,    \* useState(false)
  transcriptions,     \* useState([])
  transcriptionRef,   \* App: useRef({user: "", model: ""})
  sessionRef,         \* useRef(null): a call's session, or null
  inputAudioCtxRef,   \* useRef(null): a call's input context, or null
  outputAudioCtxRef,  \* useRef(null): a call's output context, or null
  nextStartTimeRef,   \* useRef(0)
  sourcesRef,         \* useRef(new Set())
  calls,              \* number of startCall invocations so far
  pc,                 \* per call: where its startCall is suspended
  conn,               \* per call: the transport session as the SDK holds it
  inputCtx,           \* per call: the input AudioContext startCall created
  outputCtx,          \* per call: the output AudioContext startCall created
  capture,            \* per call: the scriptProcessor installed by onopen
  stream,             \* per call: the MediaStream getUserMedia resolved to
  timers,             \* pending setTimeout(() => setStatus(IDLE), 1000)
  maxStops,           \* most stop() calls any one playback entry has received
  last                \* the handler that ran last, its inputs and its effects

vars ==
  <<comp, apiKey, status, isMuted, isModelSpeaking, transcriptions,
    transcriptionRef, sessionRef, inputAudioCtxRef, outputAudioCtxRef,
    nextStartTimeRef, sourcesRef, calls, pc, conn, inputCtx, outputCtx,
    capture, stream, timers, maxStops, last>>

\* ---- helpers ----
Max(a, b) == IF a >= b THEN a ELSE b

\* Variant of the slice below that keeps the first n elements.
SliceFirst(s, n) ==
  IF Len(s) <= n THEN s ELSE SubSeq(s, 1, n)

\* Array.prototype.slice(-n): the last n elements, in order.
SliceLast(s, n) ==
  IF Len(s) <= n THEN s ELSE SubSeq(s, Len(s) - n + 1, Len(s))

NoCtx == [state |-> "none", closeCalls |-> 0, currentTime |-> 0]
NewCtx == [state |-> "running", closeCalls |-> 0, currentTime |-> 0]
NoConn == [state |-> "none", onerror |-> FALSE, onclose |-> FALSE, closeCalls |-> 0]
NoCapture == [on |-> FALSE, isMuted |-> FALSE]

\* A MediaStream is live while one of its tracks has not been stopped.  The
\* stream is the local `stream` of startCall; neither component calls
\* getTracks() or stop() on it or on its tracks.
NoStream == "none"
LiveStream == "live"
EmptyBuffers == [user |-> <<>>, model |-> <<>>]

\* A transcription field the message does not carry.
Absent == [present |-> FALSE, text |-> <<>>]

\* last records only what the handlers of interest did: a capture frame
\* (op "frame": the isMuted it met, its outcome and the session it was sent
\* on), an inbound message (op "onmessage": its interrupted flag, the
\* output clock it was handled at and the log it found), the handlers that run cleanupCall (op "hangup",
\* "onerror", "onclose", "catch": the call whose event it was and the
\* operations performed; VoiceAgent's catch, which does not run cleanupCall,
\* is op "failed"), and the codec functions applied to a frame (op
\* "createPcmBlob", "decodeAudioData": the samples, the 16-bit values
\* stored, the blob, the samples decoded).
\* raised says that the handler threw.
Idle == [op |-> "none", call |-> null, isMuted |-> FALSE, outcome |-> "none",
         target |-> null, interrupted |-> FALSE, now |-> 0,
         steps |-> <<>>, raised |-> FALSE,
         log |-> <<>>,
         samples |-> <<>>, int16 |-> <<>>, blob |-> <<>>, decoded |-> <<>>]

\* The VoiceAgent's isMutedRef is re-assigned from isMuted on every render,
\* so at every handler boundary it holds the current isMuted.
isMutedRef == isMuted

Init ==
  /\ comp \in Components
  /\ apiKey \in (IF comp = "VoiceAgent" THEN BOOLEAN ELSE {TRUE})
  /\ status = CallStatus.IDLE
  /\ isMuted = FALSE
  /\ isModelSpeaking = FALSE
  /\ transcriptions = <<>>
  /\ transcriptionRef = EmptyBuffers
  /\ sessionRef = null
  /\ inputAudioCtxRef = null
  /\ outputAudioCtxRef = null
  /\ nextStartTimeRef = 0
  /\ sourcesRef = {}
  /\ calls = 0
  /\ pc = [i \in Calls |-> "none"]
  /\ conn = [i \in Calls |-> NoConn]
  /\ inputCtx = [i \in Calls |-> NoCtx]
  /\ outputCtx = [i \in Calls |-> NoCtx]
  /\ capture = [i \in Calls |-> NoCapture]
  /\ stream = [i \in Calls |-> NoStream]
  /\ timers = 0
  /\ maxStops = 0
  /\ last = Idle

\* ---- cleanupCall: VoiceAgent.jsx 86-112, part_002 69-98 ----
\* The routine is a straight-line program; each statement is a step applied
\* to the record of the state it may touch.  st.steps lists the operations
\* performed, in order; st.raised is set by a statement that throws, which
\* abandons the rest of the routine.  st.faults names the platform calls that
\* fail in this run: "session.close" and "source.stop" throw, "context.close"
\* returns a promise that rejects.

CurState ==
  [sessionRef |-> sessionRef, conn |-> conn, sourcesRef |-> sourcesRef,
   maxStops |-> maxStops, inputCtx |-> inputCtx, outputCtx |-> outputCtx,
   inputAudioCtxRef |-> inputAudioCtxRef,
   outputAudioCtxRef |-> outputAudioCtxRef,
   transcriptions |-> transcriptions, transcriptionRef |-> transcriptionRef,
   nextStartTimeRef |-> nextStartTimeRef, status |-> status,
   isModelSpeaking |-> isModelSpeaking, timers |-> timers,
   steps |-> <<>>, raised |-> FALSE, faults |-> {}]

\* session.close(): the SDK closes the socket; the socket's close event (and
\* with it callbacks.onclose) is delivered later.
SessionClose(c) ==
  [c EXCEPT !.state = IF @ \in {"opening", "open"} THEN "closed" ELSE @,
            !.closeCalls = @ + 1]

\* AudioContext.close(): closing a closed context rejects the promise, which
\* the code swallows with .catch(() => {}).
ContextClose(c) == [c EXCEPT !.state = "closed", !.closeCalls = @ + 1]

\* AudioContext.close() whose promise rejects: the context is left as it
\* was, and .catch(() => {}) swallows the rejection.
ContextCloseRejected(c) == [c EXCEPT !.closeCalls = @ + 1]

\* source.stop() inside try/catch: a stop() that throws is caught by the
\* empty catch and the loop goes on.
SourceStop(s) == [s EXCEPT !.stops = @ + 1]

MaxStopsOf(S, m) ==
  IF \E s \in S : s.stops > m
    THEN CHOOSE n \in {s.stops : s \in S} : \A s \in S : s.stops <= n
    ELSE m

\* Variant of the statement below that leaves sessionRef.current set.
StepCloseSessionKeepRef(st) ==
  IF st.sessionRef # null
    THEN [st EXCEPT !.conn[st.sessionRef] = SessionClose(@),
                    !.steps = Append(@, "session.close"),
                    !.raised = "session.close" \in st.faults]
    ELSE st

\* if (sessionRef.current) { sessionRef.current.close(); sessionRef.current = null; }
\* The call is not inside a try: when it throws, the assignment and the rest
\* of the routine are skipped.
StepCloseSession(st) ==
  IF st.sessionRef # null
    THEN IF "session.close" \in st.faults
           THEN [st EXCEPT !.conn[st.sessionRef].closeCalls = @ + 1,
                           !.steps = Append(@, "session.close"),
                           !.raised = TRUE]
           ELSE [st EXCEPT !.conn[st.sessionRef] = SessionClose(@),
                           !.sessionRef = null,
                           !.steps = Append(@, "session.close")]
    ELSE st

\* sourcesRef.current.forEach((source) => { try { source.stop(); } catch (e) {} });
StepStopSources(st) ==
  IF st.sourcesRef # {}
    THEN LET stopped == {SourceStop(s) : s \in st.sourcesRef}
         IN [st EXCEPT !.sourcesRef = stopped,
                       !.maxStops = MaxStopsOf(stopped, @),
                       !.steps = Append(@, "source.stop")]
    ELSE st

\* sourcesRef.current.clear();
StepClearSources(st) ==
  [st EXCEPT !.sourcesRef = {}, !.steps = Append(@, "sources.clear")]

\* if (inputAudioCtxRef.current) { ...close().catch(() => {}); ... = null; }
StepCloseInputCtx(st) ==
  IF st.inputAudioCtxRef # null
    THEN [st EXCEPT !.inputCtx[st.inputAudioCtxRef] =
                      IF "context.close" \in st.faults
                        THEN ContextCloseRejected(@) ELSE ContextClose(@),
                    !.inputAudioCtxRef = null,
                    !.steps = Append(@, "inputCtx.close")]
    ELSE st

\* if (outputAudioCtxRef.current) { ...close().catch(() => {}); ... = null; }
StepCloseOutputCtx(st) ==
  IF st.outputAudioCtxRef # null
    THEN [st EXCEPT !.outputCtx[st.outputAudioCtxRef] =
                      IF "context.close" \in st.faults
                        THEN ContextCloseRejected(@) ELSE ContextClose(@),
                    !.outputAudioCtxRef = null,
                    !.steps = Append(@, "outputCtx.close")]
    ELSE st

\* setTranscriptions([]);
StepClearTranscriptions(st) ==
  [st EXCEPT !.transcriptions = <<>>, !.steps = Append(@, "setTranscriptions")]

\* App only: transcriptionRef.current = { user: "", model: "" };
StepResetTranscriptionRef(st) ==
  [st EXCEPT !.transcriptionRef = EmptyBuffers,
             !.steps = Append(@, "transcriptionRef")]

\* nextStartTimeRef.current = 0;
StepResetCursor(st) ==
  [st EXCEPT !.nextStartTimeRef = 0, !.steps = Append(@, "nextStartTimeRef")]

\* setStatus(CallStatus.ENDED);
StepSetStatusEnded(st) ==
  [st EXCEPT !.status = CallStatus.ENDED, !.steps = Append(@, "setStatus")]

\* setIsModelSpeaking(false);
StepClearSpeaking(st) ==
  [st EXCEPT !.isModelSpeaking = FALSE,
             !.steps = Append(@, "setIsModelSpeaking")]

\* Variant of the statement below that schedules nothing.
StepScheduleTimerDropped(st) ==
  [st EXCEPT !.steps = Append(@, "setTimeout")]

\* setTimeout(() => setStatus(CallStatus.IDLE), 1000);
StepScheduleTimer(st) ==
  [st EXCEPT !.timers = @ + 1, !.steps = Append(@, "setTimeout")]

RunStep(st, step) ==
  CASE step = "closeSession" -> StepCloseSession(st)
    [] step = "stopSources" -> StepStopSources(st)
    [] step = "clearSources" -> StepClearSources(st)
    [] step = "closeInputCtx" -> StepCloseInputCtx(st)
    [] step = "closeOutputCtx" -> StepCloseOutputCtx(st)
    [] step = "clearTranscriptions" -> StepClearTranscriptions(st)
    [] step = "resetTranscriptionRef" -> StepResetTranscriptionRef(st)
    [] step = "resetCursor" -> StepResetCursor(st)
    [] step = "setStatusEnded" -> StepSetStatusEnded(st)
    [] step = "clearSpeaking" -> StepClearSpeaking(st)
    [] step = "scheduleTimer" -> StepScheduleTimer(st)

\* Variant of the routine below that changes the status first.
cleanupProgramStatusFirst(c) ==
  <<"setStatusEnded", "closeSession", "stopSources", "clearSources",
    "closeInputCtx", "closeOutputCtx", "clearTranscriptions">>
  \o (IF c = "App" THEN <<"resetTranscriptionRef">> ELSE <<>>)
  \o <<"resetCursor", "clearSpeaking", "scheduleTimer">>

\* The statements of cleanupCall in source order.
cleanupProgram(c) ==
  <<"closeSession", "stopSources", "clearSources", "closeInputCtx",
    "closeOutputCtx", "clearTranscriptions">>
  \o (IF c = "App" THEN <<"resetTranscriptionRef">> ELSE <<>>)
  \o <<"resetCursor", "setStatusEnded", "clearSpeaking", "scheduleTimer">>

RECURSIVE Exec(_, _)
Exec(st, prog) ==
  IF prog = <<>> \/ st.raised
    THEN st
    ELSE Exec(RunStep(st, Head(prog)), Tail(prog))

cleanupCall(st) == Exec(st, cleanupProgram(comp))

\* The handler's final values of everything cleanupCall may touch.
Commit(st) ==
  /\ sessionRef' = st.sessionRef
  /\ conn' = st.conn
  /\ sourcesRef' = st.sourcesRef
  /\ maxStops' = st.maxStops
  /\ inputCtx' = st.inputCtx
  /\ outputCtx' = st.outputCtx
  /\ inputAudioCtxRef' = st.inputAudioCtxRef
  /\ outputAudioCtxRef' = st.outputAudioCtxRef
  /\ transcriptions' = st.transcriptions
  /\ transcriptionRef' = st.transcriptionRef
  /\ nextStartTimeRef' = st.nextStartTimeRef
  /\ status' = st.status
  /\ isModelSpeaking' = st.isModelSpeaking
  /\ timers' = st.timers

\* End Call button: VoiceAgent.jsx 331-337 (rendered while ACTIVE),
\* part_002 577-581 (enabled while ACTIVE or CONNECTING).  faults: the
\* platform calls that fail during this run of cleanupCall.
HangUpWith(faults) ==
  /\ IF comp = "VoiceAgent"
       THEN status = CallStatus.ACTIVE
       ELSE status \in {CallStatus.ACTIVE, CallStatus.CONNECTING}
  /\ timers < MaxTimers
  /\ LET st == cleanupCall([CurState EXCEPT !.faults = faults])
     IN /\ Commit(st)
        /\ last' = [Idle EXCEPT !.op = "hangup", !.steps = st.steps,
                                !.raised = st.raised]
  /\ UNCHANGED <<comp, apiKey, stream, isMuted, calls, pc, capture>>

HangUp == HangUpWith({})

\* setTimeout(() => setStatus(CallStatus.IDLE), 1000) fires.
TimerFire ==
  /\ timers > 0
  /\ timers' = timers - 1
  /\ status' = CallStatus.IDLE
  /\ last' = Idle
  /\ UNCHANGED <<comp, apiKey, stream, isMuted, isModelSpeaking, transcriptions,
                 transcriptionRef, sessionRef, inputAudioCtxRef,
                 outputAudioCtxRef, nextStartTimeRef, sourcesRef, calls, pc,
                 conn, inputCtx, outputCtx, capture, maxStops>>

\* ---- startCall: VoiceAgent.jsx 114-263, part_002 100-236 ----

\* new AudioContext(...) twice and the two ref assignments
\* (VoiceAgent.jsx 133-136, part_002 105-110).
CreateContexts(i) ==
  /\ inputCtx' = [inputCtx EXCEPT ![i] = NewCtx]
  /\ outputCtx' = [outputCtx EXCEPT ![i] = NewCtx]
  /\ inputAudioCtxRef' = i
  /\ outputAudioCtxRef' = i

\* The button that invokes startCall is rendered while the status is IDLE or
\* ENDED (both components) and, in VoiceAgent, as "Try Again" while ERROR
\* (VoiceAgent.jsx 381-399, part_002 404-406).
StartEnabled ==
  \/ status \in {CallStatus.IDLE, CallStatus.ENDED}
  \/ comp = "VoiceAgent" /\ status = CallStatus.ERROR

\* startCall up to its first await.  VoiceAgent suspends on the dynamic
\* import; App creates the contexts and suspends on getUserMedia.  App's
\* onaudioprocess closes over the isMuted of the render that ran startCall.
\* maxCalls bounds the number of calls started in one run.
StartCall(maxCalls) ==
  /\ StartEnabled
  /\ calls < maxCalls
  /\ LET i == calls + 1
     IN /\ calls' = i
        /\ status' = CallStatus.CONNECTING
        /\ IF comp = "VoiceAgent"
             THEN /\ pc' = [pc EXCEPT ![i] = "import"]
                  /\ UNCHANGED <<inputCtx, outputCtx, inputAudioCtxRef,
                                 outputAudioCtxRef, capture>>
             ELSE /\ pc' = [pc EXCEPT ![i] = "media"]
                  /\ CreateContexts(i)
                  /\ capture' = [capture EXCEPT ![i].isMuted = isMuted]
        /\ last' = Idle
  /\ UNCHANGED <<comp, apiKey, stream, isMuted, isModelSpeaking, transcriptions,
                 transcriptionRef, sessionRef, nextStartTimeRef, sourcesRef,
                 conn, timers, maxStops>>

\* VoiceAgent.jsx 120-138: the import resolved; without an API key the call
\* ends in ERROR, otherwise the contexts are created and getUserMedia awaited.
ImportResolved(i) ==
  /\ pc[i] = "import"
  /\ IF apiKey
       THEN /\ pc' = [pc EXCEPT ![i] = "media"]
            /\ CreateContexts(i)
            /\ UNCHANGED status
       ELSE /\ pc' = [pc EXCEPT ![i] = "failed"]
            /\ status' = CallStatus.ERROR
            /\ UNCHANGED <<inputCtx, outputCtx, inputAudioCtxRef,
                           outputAudioCtxRef>>
  /\ last' = Idle
  /\ UNCHANGED <<comp, apiKey, stream, isMuted, isModelSpeaking, transcriptions,
                 transcriptionRef, sessionRef, nextStartTimeRef, sourcesRef,
                 calls, conn, capture, timers, maxStops>>

\* getUserMedia resolved with the microphone stream: ai.live.connect is
\* invoked and awaited (VoiceAgent.jsx 138-162, part_002 112-114, 230).
GetUserMediaResolved(i) ==
  /\ pc[i] = "media"
  /\ pc' = [pc EXCEPT ![i] = "connecting"]
  /\ stream' = [stream EXCEPT ![i] = LiveStream]
  /\ conn' = [conn EXCEPT ![i].state = "opening"]
  /\ last' = Idle
  /\ UNCHANGED <<comp, apiKey, status, isMuted, isModelSpeaking,
                 transcriptions, transcriptionRef, sessionRef,
                 inputAudioCtxRef, outputAudioCtxRef, nextStartTimeRef,
                 sourcesRef, calls, inputCtx, outputCtx, capture, timers,
                 maxStops>>

\* The catch block of startCall: VoiceAgent.jsx 258-262 sets ERROR;
\* part_002 231-235 sets ERROR and then runs cleanupCall.  pc records
\* whether the await that threw was getUserMedia or the connect.
Catch(i, st) ==
  /\ pc' = [pc EXCEPT ![i] = IF @ = "media" THEN "mediaFailed" ELSE "failed"]
  /\ IF comp = "VoiceAgent"
       THEN /\ Commit([st EXCEPT !.status = CallStatus.ERROR])
            /\ last' = [Idle EXCEPT !.op = "failed", !.call = i]
       ELSE /\ timers < MaxTimers
            /\ LET end == cleanupCall([st EXCEPT !.status = CallStatus.ERROR])
               IN /\ Commit(end)
                  /\ last' = [Idle EXCEPT !.op = "catch", !.call = i,
                                          !.steps = end.steps,
                                          !.raised = end.raised]
  /\ UNCHANGED <<comp, apiKey, stream, isMuted, calls, capture>>

\* Variant of the rejection below in which the connect was already invoked.
GetUserMediaRejectedAfterConnect(i) ==
  /\ pc[i] = "media"
  /\ Catch(i, [CurState EXCEPT !.conn[i].state = "opening"])

\* getUserMedia rejected (no device, permission denied).
GetUserMediaRejected(i) ==
  /\ pc[i] = "media"
  /\ Catch(i, CurState)

\* ai.live.connect rejected before the session opened.
ConnectRejected(i) ==
  /\ pc[i] = "connecting"
  /\ conn[i].state = "opening"
  /\ Catch(i, [CurState EXCEPT !.conn[i].state = "closed",
                               !.conn[i].onclose = TRUE])

\* callbacks.onopen: VoiceAgent.jsx 174-190, part_002 126-144.
OnOpen(i) ==
  /\ pc[i] = "connecting"
  /\ conn[i].state = "opening"
  /\ conn' = [conn EXCEPT ![i].state = "open"]
  /\ pc' = [pc EXCEPT ![i] = "open"]
  /\ status' = CallStatus.ACTIVE
  /\ capture' = [capture EXCEPT ![i].on = TRUE]
  /\ last' = Idle
  /\ UNCHANGED <<comp, apiKey, stream, isMuted, isModelSpeaking, transcriptions,
                 transcriptionRef, sessionRef, inputAudioCtxRef,
                 outputAudioCtxRef, nextStartTimeRef, sourcesRef, calls,
                 inputCtx, outputCtx, timers, maxStops>>

\* The connect promise resolved after onopen: sessionRef.current = session
\* (VoiceAgent.jsx 257, part_002 230).
ConnectResolved(i) ==
  /\ pc[i] = "open"
  /\ pc' = [pc EXCEPT ![i] = "stored"]
  /\ sessionRef' = i
  /\ last' = Idle
  /\ UNCHANGED <<comp, apiKey, stream, status, isMuted, isModelSpeaking,
                 transcriptions, transcriptionRef, inputAudioCtxRef,
                 outputAudioCtxRef, nextStartTimeRef, sourcesRef, calls,
                 conn, inputCtx, outputCtx, capture, timers, maxStops>>

\* callbacks.onerror: VoiceAgent.jsx 245-250, part_002 219-223.  The socket
\* that reported the error is dead; its close event follows.
OnError(i) ==
  /\ conn[i].state \in {"opening", "open"}
  /\ ~conn[i].onerror
  /\ timers < MaxTimers
  /\ LET st == cleanupCall([CurState EXCEPT !.conn[i].state = "closed",
                                            !.conn[i].onerror = TRUE,
                                            !.status = CallStatus.ERROR])
     IN /\ Commit(st)
        /\ last' = [Idle EXCEPT !.op = "onerror", !.call = i,
                                !.steps = st.steps, !.raised = st.raised]
  /\ UNCHANGED <<comp, apiKey, stream, isMuted, calls, pc, capture>>

\* callbacks.onclose: VoiceAgent.jsx 251-253, part_002 224-226.  Delivered
\* once per socket, whether the remote end closed it, an error killed it or
\* cleanupCall closed it.
OnClose(i) ==
  /\ conn[i].state \in {"opening", "open", "closed"}
  /\ ~conn[i].onclose
  /\ timers < MaxTimers
  /\ LET st == cleanupCall([CurState EXCEPT !.conn[i].state = "closed",
                                            !.conn[i].onclose = TRUE])
     IN /\ Commit(st)
        /\ last' = [Idle EXCEPT !.op = "onclose", !.call = i,
                                !.steps = st.steps, !.raised = st.raised]
  /\ UNCHANGED <<comp, apiKey, stream, isMuted, calls, pc, capture>>

\* Mute button: VoiceAgent.jsx 325-330 (rendered while ACTIVE),
\* part_002 530-532 (disabled unless ACTIVE).
ToggleMute ==
  /\ status = CallStatus.ACTIVE
  /\ isMuted' = ~isMuted
  /\ last' = Idle
  /\ UNCHANGED <<comp, apiKey, stream, status, isModelSpeaking, transcriptions,
                 transcriptionRef, sessionRef, inputAudioCtxRef,
                 outputAudioCtxRef, nextStartTimeRef, sourcesRef, calls, pc,
                 conn, inputCtx, outputCtx, capture, timers, maxStops>>

\* ---- capture: scriptProcessor.onaudioprocess ----

\* The mute value the callback tests: VoiceAgent.jsx 180 reads
\* isMutedRef.current; part_002 132 reads the isMuted its closure captured.
FrameGated(i) ==
  IF comp = "VoiceAgent" THEN isMutedRef ELSE capture[i].isMuted

\* What becomes of an ungated frame.  VoiceAgent.jsx 183-185 sends on
\* sessionRef.current if it is set; part_002 135-139 sends on the session its
\* own sessionPromise resolves to, once it has resolved.
FrameOutcome(i) ==
  IF comp = "VoiceAgent"
    THEN IF sessionRef # null
           THEN [outcome |-> "sent", target |-> sessionRef]
           ELSE [outcome |-> "dropped", target |-> null]
    ELSE IF pc[i] = "stored"
           THEN [outcome |-> "sent", target |-> i]
           ELSE [outcome |-> "deferred", target |-> i]

\* What a throwing sendRealtimeInput does to the callback: VoiceAgent.jsx
\* 183-185 calls it bare, so the exception leaves onaudioprocess; part_002
\* 135-139 calls it inside sessionPromise.then(...).catch(() => {}).
SendFailureRaises == comp = "VoiceAgent"

\* One capture frame of call i's input context.  A closed context delivers
\* no frames.  sendOk: whether sendRealtimeInput, if it is called, returns.
\* The callback stays installed whatever becomes of the frame.
AudioProcess(i) ==
  /\ capture[i].on
  /\ inputCtx[i].state = "running"
  /\ \E sendOk \in BOOLEAN :
       LET r == IF FrameGated(i)
                  THEN [outcome |-> "muted", target |-> null]
                  ELSE FrameOutcome(i)
       IN /\ ~sendOk => r.outcome = "sent"
          /\ last' = [Idle EXCEPT
                        !.op = "frame", !.call = i,
                        !.isMuted = isMuted,
                        !.outcome = IF sendOk THEN r.outcome ELSE "sendFailed",
                        !.target = r.target,
                        !.raised = ~sendOk /\ SendFailureRaises]
  /\ UNCHANGED <<comp, apiKey, stream, status, isMuted, isModelSpeaking,
                 transcriptions, transcriptionRef, sessionRef,
                 inputAudioCtxRef, outputAudioCtxRef, nextStartTimeRef,
                 sourcesRef, calls, pc, conn, inputCtx, outputCtx, capture,
                 timers, maxStops>>

\* ---- playback: callbacks.onmessage ----

Playback ==
  [sourcesRef |-> sourcesRef, nextStartTimeRef |-> nextStartTimeRef,
   isModelSpeaking |-> isModelSpeaking, maxStops |-> maxStops]

\* Variant of the scheduling below without the clamp to the output clock.
ScheduleNoClamp(pb, i, d, now) ==
  LET start == pb.nextStartTimeRef
  IN [pb EXCEPT !.isModelSpeaking = TRUE,
                !.nextStartTimeRef = start + d,
                !.sourcesRef = @ \cup {[ctx |-> i, start |-> start,
                                        dur |-> d, stops |-> 0]}]

\* VoiceAgent.jsx 194-213, part_002 148-172: a chunk of duration d handled
\* by call i's onmessage while that call's output clock reads now.
Schedule(pb, i, d, now) ==
  LET start == Max(pb.nextStartTimeRef, now)
  IN [pb EXCEPT !.isModelSpeaking = TRUE,
                !.nextStartTimeRef = start + d,
                !.sourcesRef = @ \cup {[ctx |-> i, start |-> start,
                                        dur |-> d, stops |-> 0]}]

\* Variant of the interruption below that leaves the cursor where it is.
InterruptKeepCursor(pb) ==
  LET stopped == {SourceStop(s) : s \in pb.sourcesRef}
  IN [pb EXCEPT !.maxStops = MaxStopsOf(stopped, @),
                !.sourcesRef = {},
                !.isModelSpeaking = FALSE]

\* VoiceAgent.jsx 215-224, part_002 174-183.
Interrupt(pb) ==
  LET stopped == {SourceStop(s) : s \in pb.sourcesRef}
  IN [pb EXCEPT !.maxStops = MaxStopsOf(stopped, @),
                !.sourcesRef = {},
                !.nextStartTimeRef = 0,
                !.isModelSpeaking = FALSE]

\* ---- transcripts: callbacks.onmessage ----

Transcript ==
  [transcriptions |-> transcriptions, transcriptionRef |-> transcriptionRef]

\* VoiceAgent.jsx 226-243: every non-empty delta is appended to the log.
AppendDelta(tr, role, f) ==
  IF f.present /\ f.text # <<>>
    THEN [tr EXCEPT !.transcriptions =
            Append(SliceLast(@, LogCap - 1), [role |-> role, text |-> f.text])]
    ELSE tr

\* part_002 185-192: the delta is appended to the role's buffer.
Accumulate(tr, role, f) ==
  IF f.present
    THEN IF role = "user"
           THEN [tr EXCEPT !.transcriptionRef.user = @ \o f.text]
           ELSE [tr EXCEPT !.transcriptionRef.model = @ \o f.text]
    ELSE tr

\* Variant of the flush below that pushes the model entry first.
TurnCompleteModelFirst(tr) ==
  LET uText == tr.transcriptionRef.user
      mText == tr.transcriptionRef.model
      newEntries ==
        (IF mText # <<>> THEN <<[role |-> "model", text |-> mText]>> ELSE <<>>)
        \o (IF uText # <<>> THEN <<[role |-> "user", text |-> uText]>> ELSE <<>>)
  IN [transcriptions |-> SliceLast(tr.transcriptions \o newEntries, LogCap),
      transcriptionRef |-> EmptyBuffers]

\* part_002 193-217: turnComplete flushes the buffers into the log.
TurnComplete(tr) ==
  LET uText == tr.transcriptionRef.user
      mText == tr.transcriptionRef.model
      newEntries ==
        (IF uText # <<>> THEN <<[role |-> "user", text |-> uText]>> ELSE <<>>)
        \o (IF mText # <<>> THEN <<[role |-> "model", text |-> mText]>> ELSE <<>>)
  IN [transcriptions |-> SliceLast(tr.transcriptions \o newEntries, LogCap),
      transcriptionRef |-> EmptyBuffers]

HandleTranscript(tr, m) ==
  IF comp = "VoiceAgent"
    THEN AppendDelta(AppendDelta(tr, "user", m.inputTranscription),
                     "model", m.outputTranscription)
    ELSE LET acc == Accumulate(Accumulate(tr, "user", m.inputTranscription),
                               "model", m.outputTranscription)
         IN IF m.turnComplete THEN TurnComplete(acc) ELSE acc

\* The inbound messages of the model: an audio chunk of duration 1..MaxDur
\* (0: no audio part) whose payload may carry one byte beyond its 16-bit
\* samples, the interrupted flag, transcription deltas and turnComplete, in
\* any combination.
Texts == {<<>>, <<"x">>}
Deltas == {Absent} \cup {[present |-> TRUE, text |-> t] : t \in Texts}
Messages ==
  [audio : 0..MaxDur, extraByte : BOOLEAN, interrupted : BOOLEAN,
   inputTranscription : Deltas, outputTranscription : Deltas,
   turnComplete : BOOLEAN]

\* The byte length of the payload of m's audio part.
ByteLength(m) == 2 * m.audio + (IF m.extraByte THEN 1 ELSE 0)

\* new Int16Array(data.buffer) throws a RangeError when the byte length of
\* the buffer is not a multiple of 2 (VoiceAgent.jsx 44).
Int16ArrayRaises(byteLength) == byteLength % 2 # 0

\* callbacks.onmessage of call i's session: VoiceAgent.jsx 191-244,
\* part_002 145-218.  outputCtx is the constant of the startCall that made
\* the session, so the guard `base64Audio && outputCtx` tests only the audio.
\* The handler is an async function with no try/catch: when decodeAudioData
\* throws, setIsModelSpeaking(true) has run and the rest of the handler is
\* abandoned.  part_002 imports decodeAudioData from ./utils/audioUtils,
\* which src/ does not hold; it is taken to be the function of that name in
\* VoiceAgent.jsx.
OnMessage(i, m) ==
  /\ conn[i].state = "open"
  /\ m.audio > 0 => Cardinality(sourcesRef) < MaxSources
  /\ IF m.audio > 0 /\ Int16ArrayRaises(ByteLength(m))
       THEN /\ isModelSpeaking' = TRUE
            /\ last' = [Idle EXCEPT !.op = "onmessage", !.call = i,
                                    !.interrupted = m.interrupted,
                                    !.now = outputCtx[i].currentTime,
                                    !.log = transcriptions,
                                    !.raised = TRUE]
            /\ UNCHANGED <<sourcesRef, nextStartTimeRef, maxStops,
                           transcriptions, transcriptionRef>>
       ELSE LET pb1 == IF m.audio > 0
                         THEN Schedule(Playback, i, m.audio,
                                       outputCtx[i].currentTime)
                         ELSE Playback
                pb2 == IF m.interrupted THEN Interrupt(pb1) ELSE pb1
                tr == HandleTranscript(Transcript, m)
            IN /\ Len(tr.transcriptionRef.user) <= MaxText
               /\ Len(tr.transcriptionRef.model) <= MaxText
               /\ sourcesRef' = pb2.sourcesRef
               /\ nextStartTimeRef' = pb2.nextStartTimeRef
               /\ isModelSpeaking' = pb2.isModelSpeaking
               /\ maxStops' = pb2.maxStops
               /\ transcriptions' = tr.transcriptions
               /\ transcriptionRef' = tr.transcriptionRef
               /\ last' = [Idle EXCEPT !.op = "onmessage", !.call = i,
                                       !.interrupted = m.interrupted,
                                       !.now = outputCtx[i].currentTime,
                                       !.log = transcriptions]
  /\ UNCHANGED <<comp, apiKey, stream, status, isMuted, sessionRef, inputAudioCtxRef,
                 outputAudioCtxRef, calls, pc, conn, inputCtx, outputCtx,
                 capture, timers>>

\* Variant of the completion below that also rewinds the cursor when the
\* set becomes empty.
SourceEndedResetCursor(s) ==
  /\ s \in sourcesRef
  /\ outputCtx[s.ctx].state = "running"
  /\ outputCtx[s.ctx].currentTime >= s.start + s.dur
  /\ sourcesRef' = sourcesRef \ {s}
  /\ isModelSpeaking' = IF sourcesRef' = {} THEN FALSE ELSE isModelSpeaking
  /\ nextStartTimeRef' = IF sourcesRef' = {} THEN 0 ELSE nextStartTimeRef
  /\ last' = Idle
  /\ UNCHANGED <<comp, apiKey, stream, status, isMuted, transcriptions,
                 transcriptionRef, sessionRef, inputAudioCtxRef,
                 outputAudioCtxRef, calls, pc, conn,
                 inputCtx, outputCtx, capture, timers, maxStops>>

\* audioSource.onended after the entry has played to its end
\* (VoiceAgent.jsx 209-212, part_002 168-171).
SourceEnded(s) ==
  /\ s \in sourcesRef
  /\ outputCtx[s.ctx].state = "running"
  /\ outputCtx[s.ctx].currentTime >= s.start + s.dur
  /\ sourcesRef' = sourcesRef \ {s}
  /\ isModelSpeaking' = IF sourcesRef' = {} THEN FALSE ELSE isModelSpeaking
  /\ last' = Idle
  /\ UNCHANGED <<comp, apiKey, stream, status, isMuted, transcriptions,
                 transcriptionRef, sessionRef, inputAudioCtxRef,
                 outputAudioCtxRef, nextStartTimeRef, calls, pc, conn,
                 inputCtx, outputCtx, capture, timers, maxStops>>

\* audioSource.onended of an entry that stop() ended (the same callback,
\* VoiceAgent.jsx 209-212, part_002 168-171).  The interruption or the
\* teardown that stopped the entry had cleared the set, so delete() removes
\* nothing; the flag is cleared if the set is empty now.  Enabled once an
\* entry has been stopped.
StoppedSourceEnded ==
  /\ maxStops > 0
  /\ isModelSpeaking' = IF sourcesRef = {} THEN FALSE ELSE isModelSpeaking
  /\ last' = Idle
  /\ UNCHANGED <<comp, apiKey, stream, status, isMuted, transcriptions,
                 transcriptionRef, sessionRef, inputAudioCtxRef,
                 outputAudioCtxRef, nextStartTimeRef, sourcesRef, calls, pc,
                 conn, inputCtx, outputCtx, capture, timers, maxStops>>

\* The output clock of call i's context advances by a tenth of a second;
\* a closed context's clock stands still.
Tick(i) ==
  /\ outputCtx[i].state = "running"
  /\ outputCtx[i].currentTime < MaxClock
  /\ outputCtx' = [outputCtx EXCEPT ![i].currentTime = @ + 1]
  /\ last' = Idle
  /\ UNCHANGED <<comp, apiKey, stream, status, isMuted, isModelSpeaking,
                 transcriptions, transcriptionRef, sessionRef,
                 inputAudioCtxRef, outputAudioCtxRef, nextStartTimeRef,
                 sourcesRef, calls, pc, conn, inputCtx, capture, timers,
                 maxStops>>

\* ---- the codec: VoiceAgent.jsx 24-67 ----
\* A sample is an integer n standing for the float n / (Int16Scale * SubGrid):
\* the claims' grid k/32768 and SubGrid - 1 values between neighbours, so
\* that data[i] * 32768 has a fraction to lose.  Bytes are 0..255, a base64
\* string is the sequence of its characters' indices in the alphabet (0..63)
\* and Pad for "=".

Int16Modulus == 2 * Int16Scale
Pad == 2 * Int16Scale

SampleGrid == -(Int16Scale * SubGrid)..(Int16Scale * SubGrid)

\* The real n / d truncated toward zero.
Trunc(n, d) == IF n >= 0 THEN n \div d ELSE -((-n) \div d)

\* Storing a number into an Int16Array element: truncate, reduce modulo
\* 2^16, read as two's complement.
ToInt16(n, d) ==
  LET u == Trunc(n, d) % Int16Modulus
  IN IF u >= Int16Scale THEN u - Int16Modulus ELSE u

\* VoiceAgent.jsx 58-62: int16[i] = data[i] * 32768.
PcmInt16(data) == [k \in 1..Len(data) |-> ToInt16(data[k], SubGrid)]

\* new Uint8Array(int16.buffer): two bytes per value, low byte first.
RECURSIVE Uint8OfInt16(_)
Uint8OfInt16(int16) ==
  IF int16 = <<>>
    THEN <<>>
    ELSE LET u == Head(int16) % Int16Modulus
         IN <<u % 256, u \div 256>> \o Uint8OfInt16(Tail(int16))

\* new Int16Array(data.buffer): the inverse view; the byte length is even.
RECURSIVE Int16OfUint8(_)
Int16OfUint8(bytes) ==
  IF Len(bytes) < 2
    THEN <<>>
    ELSE LET u == bytes[1] + 256 * bytes[2]
         IN <<IF u >= Int16Scale THEN u - Int16Modulus ELSE u>>
            \o Int16OfUint8(SubSeq(bytes, 3, Len(bytes)))

\* VoiceAgent.jsx 34-41: btoa of the bytes.
RECURSIVE encode(_)
encode(bytes) ==
  CASE Len(bytes) = 0 -> <<>>
    [] Len(bytes) = 1 ->
         <<bytes[1] \div 4, (bytes[1] % 4) * 16, Pad, Pad>>
    [] Len(bytes) = 2 ->
         <<bytes[1] \div 4, (bytes[1] % 4) * 16 + bytes[2] \div 16,
           (bytes[2] % 16) * 4, Pad>>
    [] OTHER ->
         <<bytes[1] \div 4, (bytes[1] % 4) * 16 + bytes[2] \div 16,
           (bytes[2] % 16) * 4 + bytes[3] \div 64, bytes[3] % 64>>
         \o encode(SubSeq(bytes, 4, Len(bytes)))

\* VoiceAgent.jsx 24-32: atob of the string, one byte per character code.
RECURSIVE decode(_)
decode(base64) ==
  IF Len(base64) < 4
    THEN <<>>
    ELSE LET c == base64
             b1 == c[1] * 4 + c[2] \div 16
             b2 == (c[2] % 16) * 16 + c[3] \div 4
             b3 == (c[3] % 4) * 64 + c[4]
             group == IF c[3] = Pad THEN <<b1>>
                      ELSE IF c[4] = Pad THEN <<b1, (c[2] % 16) * 16 + c[3] \div 4>>
                      ELSE <<b1, b2, b3>>
         IN group \o decode(SubSeq(base64, 5, Len(base64)))

\* VoiceAgent.jsx 57-67: the data field of the blob.
createPcmBlob(data) == encode(Uint8OfInt16(PcmInt16(data)))

\* VoiceAgent.jsx 43-55 with numChannels = 1: channelData[i] =
\* dataInt16[i] / 32768.0, on the samples' scale.
decodeAudioData(data) ==
  [k \in 1..(Len(data) \div 2) |-> Int16OfUint8(data)[k] * SubGrid]

\* The frames the codec is applied to: one sample, any value of the grid.
Frames == {<<n>> : n \in SampleGrid}

\* onaudioprocess encodes a frame (VoiceAgent.jsx 181-182).
CreatePcmBlob(data) ==
  /\ comp = "VoiceAgent" /\ apiKey
  /\ last' = [Idle EXCEPT !.op = "createPcmBlob", !.samples = data,
                          !.int16 = PcmInt16(data),
                          !.blob = createPcmBlob(data)]
  /\ UNCHANGED <<comp, apiKey, stream, status, isMuted, isModelSpeaking,
                 transcriptions, transcriptionRef, sessionRef,
                 inputAudioCtxRef, outputAudioCtxRef, nextStartTimeRef,
                 sourcesRef, calls, pc, conn, inputCtx, outputCtx, capture,
                 timers, maxStops>>

\* The blob is decoded as onmessage decodes a payload
\* (VoiceAgent.jsx 196-197).
DecodeAudioData ==
  /\ last.op = "createPcmBlob"
  /\ ~Int16ArrayRaises(Len(decode(last.blob)))
  /\ last' = [last EXCEPT !.op = "decodeAudioData",
                          !.decoded = decodeAudioData(decode(last.blob))]
  /\ UNCHANGED <<comp, apiKey, stream, status, isMuted, isModelSpeaking,
                 transcriptions, transcriptionRef, sessionRef,
                 inputAudioCtxRef, outputAudioCtxRef, nextStartTimeRef,
                 sourcesRef, calls, pc, conn, inputCtx, outputCtx, capture,
                 timers, maxStops>>

\* ---- the environments ----

NoText(m) ==
  /\ m.inputTranscription = Absent
  /\ m.outputTranscription = Absent
  /\ ~m.turnComplete

\* The audio payload, if any, is a whole number of 16-bit samples.
WellFormed(m) == ~m.extraByte

\* Call lifecycle and capture: every start, failure, terminal event, hang-up
\* and timer interleaving; the remote end sends shortest chunks and
\* interruptions, and the output clocks are not advanced.
LifeMessages ==
  {m \in Messages : /\ NoText(m) /\ WellFormed(m)
                     /\ m.audio <= 1 /\ (m.audio > 0 \/ m.interrupted)}

Next ==
  \/ StartCall(MaxCalls)
  \/ \E i \in Calls : ImportResolved(i)
  \/ \E i \in Calls : GetUserMediaResolved(i)
  \/ \E i \in Calls : GetUserMediaRejected(i)
  \/ \E i \in Calls : ConnectRejected(i)
  \/ \E i \in Calls : OnOpen(i)
  \/ \E i \in Calls : ConnectResolved(i)
  \/ \E i \in Calls : OnError(i)
  \/ \E i \in Calls : OnClose(i)
  \/ HangUp
  \/ TimerFire
  \/ ToggleMute
  \/ \E i \in Calls : AudioProcess(i)
  \/ \E i \in Calls, m \in LifeMessages : OnMessage(i, m)

Spec == Init /\ [][Next]_vars

\* Teardown: every start, failure, terminal event, hang-up and timer
\* interleaving of the calls, with playback entries to stop; no capture.
NextTeardown ==
  \/ StartCall(MaxCallsSmall)
  \/ \E i \in Calls : ImportResolved(i)
  \/ \E i \in Calls : GetUserMediaResolved(i)
  \/ \E i \in Calls : GetUserMediaRejected(i)
  \/ \E i \in Calls : ConnectRejected(i)
  \/ \E i \in Calls : OnOpen(i)
  \/ \E i \in Calls : ConnectResolved(i)
  \/ \E i \in Calls : OnError(i)
  \/ \E i \in Calls : OnClose(i)
  \/ HangUp
  \/ TimerFire
  \/ \E i \in Calls, m \in LifeMessages : OnMessage(i, m)

SpecTeardown == Init /\ [][NextTeardown]_vars

\* Call i has run its course: its startCall is not suspended and its session
\* is closed with its close event delivered.
Quiescent(i) ==
  /\ pc[i] \notin {"import", "media", "open"}
  /\ conn[i].state \in {"none", "closed"}
  /\ conn[i].state = "closed" => conn[i].onclose

\* Playback scheduling: calls that follow one another (a call is started once
\* the previous one has run its course), each connecting and then hung up,
\* failing or closed by the remote end at any moment, with chunks of every
\* duration, interruptions, advancing output clocks and playback completions.
PlayMessages ==
  {m \in Messages : NoText(m) /\ WellFormed(m) /\ (m.audio > 0 \/ m.interrupted)}

StartNextCall ==
  /\ \A i \in Calls : Quiescent(i)
  /\ StartCall(MaxCallsSmall)

NextPlay ==
  \/ StartNextCall
  \/ \E i \in Calls : ImportResolved(i)
  \/ \E i \in Calls : GetUserMediaResolved(i)
  \/ \E i \in Calls : OnOpen(i)
  \/ \E i \in Calls : ConnectResolved(i)
  \/ \E i \in Calls : OnError(i)
  \/ \E i \in Calls : OnClose(i)
  \/ HangUp
  \/ TimerFire
  \/ \E i \in Calls, m \in PlayMessages : OnMessage(i, m)
  \/ \E s \in sourcesRef : SourceEnded(s)
  \/ StoppedSourceEnded
  \/ \E i \in Calls : Tick(i)

SpecPlay == Init /\ [][NextPlay]_vars

\* Transcripts: one call after another, connected and hung up at any moment,
\* receiving messages that carry transcription deltas and turnComplete in
\* every combination.  The conversation is mostly the user's: every entry of
\* the log but MaxOdd is the plain user entry, so that the log's 21 lengths
\* and the place of the entries that differ are all explored.
TextMessages ==
  {m \in Messages :
     /\ m.audio = 0 /\ WellFormed(m) /\ ~m.interrupted
     /\ ~NoText(m)}

PlainEntry == [role |-> "user", text |-> <<"x">>]

OddCount(log) == Cardinality({k \in 1..Len(log) : log[k] # PlainEntry})

LogMessage(i, m) ==
  /\ OnMessage(i, m)
  /\ OddCount(transcriptions') <= MaxOdd

NextLog ==
  \/ StartNextCall
  \/ \E i \in Calls : ImportResolved(i)
  \/ \E i \in Calls : GetUserMediaResolved(i)
  \/ \E i \in Calls : OnOpen(i)
  \/ \E i \in Calls : ConnectResolved(i)
  \/ \E i \in Calls : OnClose(i)
  \/ HangUp
  \/ TimerFire
  \/ \E i \in Calls, m \in TextMessages : LogMessage(i, m)

SpecLog == Init /\ [][NextLog]_vars

\* Teardown with failing platform calls: the environment of SpecTeardown,
\* and hang-ups during which session.close() or source.stop() throws or the
\* promise of AudioContext.close() rejects, in every combination.
Faults == SUBSET {"session.close", "source.stop", "context.close"} \ {{}}

\* At most MaxFaults close() calls are made on any one session.
HangUpFaulty(faults) ==
  /\ \A i \in Calls : conn[i].closeCalls < MaxFaults
  /\ HangUpWith(faults)

NextFault ==
  \/ NextTeardown
  \/ \E faults \in Faults : HangUpFaulty(faults)

SpecFault == Init /\ [][NextFault]_vars

\* Malformed audio: the environment of SpecPlay without the clock and the
\* playback completions, and messages whose audio payload has an odd byte
\* length, alone or together with an interruption, transcription deltas and
\* turnComplete.
MalformedMessages == {m \in Messages : m.audio > 0 /\ m.extraByte}

NextMalformed ==
  \/ StartNextCall
  \/ \E i \in Calls : ImportResolved(i)
  \/ \E i \in Calls : GetUserMediaResolved(i)
  \/ \E i \in Calls : OnOpen(i)
  \/ \E i \in Calls : ConnectResolved(i)
  \/ \E i \in Calls : OnClose(i)
  \/ HangUp
  \/ TimerFire
  \/ \E i \in Calls, m \in PlayMessages \cup MalformedMessages : OnMessage(i, m)
  \/ StoppedSourceEnded

SpecMalformed == Init /\ [][NextMalformed]_vars

\* The codec applied once to every frame of one sample, and the blob
\* decoded.
EncodeFrame ==
  /\ last = Idle
  /\ \E data \in Frames : CreatePcmBlob(data)

NextCodec ==
  \/ EncodeFrame
  \/ DecodeAudioData

SpecCodec == Init /\ [][NextCodec]_vars

\* The cursor among all the handlers: the environment of SpecPlay, the mute
\* button, and messages that carry audio, an interruption, transcription
\* deltas and turnComplete in every combination, while the log holds at
\* most MaxLogCursor entries.
CursorMessages == {m \in Messages : WellFormed(m) /\ ~NoText(m)}

CursorMessage(i, m) ==
  /\ OnMessage(i, m)
  /\ Len(transcriptions') <= MaxLogCursor

NextCursor ==
  \/ NextPlay
  \/ ToggleMute
  \/ \E i \in Calls, m \in CursorMessages : CursorMessage(i, m)

SpecCursor == Init /\ [][NextCursor]_vars

\* The end of a call: calls that follow one another, each failing, or
\* connecting and then hung up or closed by the remote end at any moment.
\* A timer that setTimeout has scheduled fires: the delay is one second and
\* nothing cancels it.
NextEnd ==
  \/ StartNextCall
  \/ \E i \in Calls : ImportResolved(i)
  \/ \E i \in Calls : GetUserMediaResolved(i)
  \/ \E i \in Calls : GetUserMediaRejected(i)
  \/ \E i \in Calls : ConnectRejected(i)
  \/ \E i \in Calls : OnOpen(i)
  \/ \E i \in Calls : ConnectResolved(i)
  \/ \E i \in Calls : OnError(i)
  \/ \E i \in Calls : OnClose(i)
  \/ HangUp
  \/ TimerFire
  \/ \E i \in Calls, m \in LifeMessages : OnMessage(i, m)

SpecEnd == Init /\ [][NextEnd]_vars /\ WF_vars(TimerFire)

\* ---- properties ----

CleanupOps == {"hangup", "onerror", "onclose", "catch"}

OpenSessions == {i \in Calls : conn[i].state \in {"opening", "open"}}

LiveContexts ==
  {i \in Calls : inputCtx[i].state = "running" \/ outputCtx[i].state = "running"}

\* C1: at most one call session exists at a time: never more than one
\* transport session opened or opening and not closed, and never more than
\* one unreleased input/output audio-context pair.
C1_OneCallSession ==
  /\ Cardinality(OpenSessions) <= 1
  /\ Cardinality(LiveContexts) <= 1

\* C2: whenever the status changes to ACTIVE, the status immediately before
\* is CONNECTING.
C2_ActiveOnlyFromConnecting ==
  [][(status' = CallStatus.ACTIVE /\ status' # status)
       => status = CallStatus.CONNECTING]_vars

\* C3: a capture frame delivered while the mute flag is true is not sent to
\* the transport session.
C3_NoSendWhileMuted ==
  (last.op = "frame" /\ last.isMuted) => last.outcome # "sent"

\* C4: the capture callback gates on the mute state current at the frame: a
\* frame delivered while the mute flag is false is not held back as muted.
C4_GateReadsCurrentMute ==
  (last.op = "frame" /\ ~last.isMuted) => last.outcome # "muted"

\* C5: an audio chunk handled with no interruption in the same message is
\* scheduled to start at max(cursor, output clock), the cursor becomes that
\* start plus the chunk's duration, the chunk does not start before the
\* clock and it starts no earlier than every entry already scheduled ends.
C5_ChunkScheduling ==
  [][\A s \in sourcesRef' \ sourcesRef :
       /\ s.start = Max(nextStartTimeRef, outputCtx[s.ctx].currentTime)
       /\ nextStartTimeRef' = s.start + s.dur
       /\ s.start >= outputCtx[s.ctx].currentTime
       /\ \A t \in sourcesRef : t.start + t.dur <= s.start]_vars

\* A second chunk that arrived at clock 1 while the first (0..2) was still
\* playing, and was started at the first one's end.
C5_Witness ==
  /\ last.op = "onmessage" /\ last.now = 1
  /\ \E i \in Calls :
       sourcesRef = {[ctx |-> i, start |-> 0, dur |-> 2, stops |-> 0],
                     [ctx |-> i, start |-> 2, dur |-> 1, stops |-> 0]}
  /\ nextStartTimeRef = 3

ReleaseOps == {"session.close", "source.stop", "inputCtx.close", "outputCtx.close"}

C8_TerminalTeardownOnce ==
  (last.op = "onclose" /\ conn[last.call].onerror)
    => \A k \in 1..Len(last.steps) :
         last.steps[k] \notin {"setStatus", "setTimeout"}

Phase(op) ==
  CASE op = "session.close" -> 1
    [] op \in {"source.stop", "sources.clear"} -> 2
    [] op \in {"inputCtx.close", "outputCtx.close"} -> 3
    [] op \in {"setTranscriptions", "transcriptionRef", "nextStartTimeRef"} -> 4
    [] op \in {"setStatus", "setIsModelSpeaking", "setTimeout"} -> 5

\* C9: every teardown closes the session (if one is held), then stops and
\* clears the playback entries, then closes the contexts (if held), then
\* clears the transcripts and the cursor, then changes the status.
C9_TeardownOrder ==
  last.op \in CleanupOps =>
    /\ \A j, k \in 1..Len(last.steps) :
         j < k => Phase(last.steps[j]) <= Phase(last.steps[k])
    /\ \A p \in {2, 4, 5} :
         \E k \in 1..Len(last.steps) : Phase(last.steps[k]) = p

\* A teardown that had a session, playback entries and both contexts to
\* release.
C9_Witness ==
  /\ last.op \in CleanupOps
  /\ ReleaseOps \subseteq {last.steps[k] : k \in 1..Len(last.steps)}

\* Teardown of call i has begun: one of its terminal events was handled or
\* cleanupCall released one of its resources.
TornDown(i) ==
  \/ conn[i].onerror
  \/ conn[i].onclose
  \/ conn[i].closeCalls > 0
  \/ inputCtx[i].closeCalls > 0
  \/ outputCtx[i].closeCalls > 0

\* C10: once teardown of a call has begun no inbound chunk of that call is
\* scheduled or added to the playback set, and no capture frame is sent on
\* its session.
C10_NoAudioAfterTeardown ==
  /\ \A s \in sourcesRef : ~TornDown(s.ctx)
  /\ (last.op = "frame" /\ last.outcome = "sent") => ~TornDown(last.target)

\* The entries a message appends to the log, from the fields it carries and
\* the buffers it finds.
RoleEntry(role, text) ==
  IF text # <<>> THEN <<[role |-> role, text |-> text]>> ELSE <<>>

\* C11: the log never holds more than 20 entries, and what a message
\* leaves in it is the log it found without its oldest entries, in order,
\* followed by the new entries, at most one per role; entries are dropped
\* only from a log that ends up full, and no more of them than were added.
C11_LogCapFifo ==
  /\ Len(transcriptions) <= LogCap
  /\ (last.op = "onmessage" /\ ~last.raised) =>
       \E k \in 0..Len(last.log) :
         LET kept == SubSeq(last.log, k + 1, Len(last.log))
         IN /\ Len(kept) <= Len(transcriptions)
            /\ SubSeq(transcriptions, 1, Len(kept)) = kept
            /\ k > 0 => Len(transcriptions) = LogCap
            /\ Len(transcriptions) - Len(kept) <= 2
            /\ k <= Len(transcriptions) - Len(kept)

\* A message that found the log full, with an entry at its head that no
\* other entry equals, and pushed that entry out.
C11_Witness ==
  /\ last.op = "onmessage"
  /\ Len(last.log) = LogCap
  /\ Len(transcriptions) = LogCap
  /\ last.log[1] # PlainEntry
  /\ \A k \in 1..LogCap : transcriptions[k] = PlainEntry

\* C12: in App a turnComplete message appends the user entry if the user
\* buffer is not empty, then the model entry if the model buffer is not
\* empty, nothing when both are empty, and leaves both buffers empty; the
\* buffers are those the preceding deltas and the message's own built.
C12_TurnCompleteFlush ==
  [][\A i \in Calls, m \in TextMessages :
       (comp = "App" /\ m.turnComplete /\ LogMessage(i, m)) =>
         LET uText == transcriptionRef.user \o m.inputTranscription.text
             mText == transcriptionRef.model \o m.outputTranscription.text
             newEntries ==
               RoleEntry("user", uText) \o RoleEntry("model", mText)
             whole == transcriptions \o newEntries
         IN /\ Len(transcriptions') <= Len(whole)
            /\ transcriptions' =
                 SubSeq(whole, Len(whole) - Len(transcriptions') + 1,
                        Len(whole))
            /\ Len(transcriptions') = LogCap \/ transcriptions' = whole
            /\ transcriptionRef' = EmptyBuffers]_vars

\* A turnComplete in App that flushed both buffers: the user entry, then the
\* model entry.
C12_Witness ==
  /\ comp = "App"
  /\ last.op = "onmessage"
  /\ Len(transcriptions) = Len(last.log) + 2
  /\ transcriptions[Len(transcriptions) - 1].role = "user"
  /\ transcriptions[Len(transcriptions)].role = "model"
  /\ transcriptionRef = EmptyBuffers

\* C13: after onerror has been handled the status shown is ERROR: the
\* teardown the handler runs does not overwrite it.
C13_ErrorShownAfterOnError ==
  last.op = "onerror" => status = CallStatus.ERROR

\* C20: the delayed setStatus(IDLE) changes the status only when the status
\* is still ENDED as it fires.
C20_TimerOnlyLeavesEnded ==
  [][(timers' < timers /\ status' # status) => status = CallStatus.ENDED]_vars

\* C16: a call attempt whose getUserMedia failed never invokes the connect
\* and never runs onopen (which is what sets ACTIVE), and its catch leaves
\* the status at ERROR (VoiceAgent) or, after the teardown App's catch runs,
\* at ENDED.
C16_NoConnectAfterMediaFailure ==
  /\ \A i \in Calls :
       pc[i] = "mediaFailed" => (conn[i] = NoConn /\ ~capture[i].on)
  /\ (last.op \in {"failed", "catch"} /\ pc[last.call] = "mediaFailed") =>
       status = (IF comp = "VoiceAgent" THEN CallStatus.ERROR
                                        ELSE CallStatus.ENDED)

\* The catch of a call whose getUserMedia was rejected has just run.
C16_Witness ==
  /\ last.op \in {"failed", "catch"}
  /\ pc[last.call] = "mediaFailed"
  /\ conn[last.call].state = "none"

\* C17: a sendRealtimeInput that fails does not raise out of the capture
\* callback, and the callback goes on receiving frames.
C17_SendFailureContained ==
  last.op = "frame" => (~last.raised /\ capture[last.call].on)

\* C18: a run of the teardown in which a release fails still performs the
\* steps after it: it does not raise, and it leaves the playback set empty,
\* both context refs released, the cursor at 0 and the status ENDED.
C18_ReleaseStepsGuarded ==
  last.op \in CleanupOps =>
    /\ ~last.raised
    /\ sourcesRef = {}
    /\ inputAudioCtxRef = null
    /\ outputAudioCtxRef = null
    /\ nextStartTimeRef = 0
    /\ status = CallStatus.ENDED

\* C19: a message whose audio payload has an odd byte length leaves the
\* status and the playback state as they were, but for what the message's
\* own interruption does, and its transcription content is handled.
C19_MalformedChunkDropped ==
  [][\A i \in Calls, m \in MalformedMessages :
       OnMessage(i, m) =>
         LET pb == IF m.interrupted THEN Interrupt(Playback) ELSE Playback
             tr == HandleTranscript(Transcript, m)
         IN /\ status' = status
            /\ sourcesRef' = pb.sourcesRef
            /\ nextStartTimeRef' = pb.nextStartTimeRef
            /\ isModelSpeaking' = pb.isModelSpeaking
            /\ transcriptions' = tr.transcriptions
            /\ transcriptionRef' = tr.transcriptionRef]_vars

\* C14: a sample of the grid k/32768, k in -32768..32768, encoded and
\* decoded comes back within 1/32768 of itself.
C14_RoundTripWithinOneStep ==
  last.op = "decodeAudioData" =>
    /\ Len(last.decoded) = Len(last.samples)
    /\ \A k \in 1..Len(last.samples) :
         LET diff == last.decoded[k] - last.samples[k]
         IN last.samples[k] % SubGrid = 0 =>
              (diff <= SubGrid /\ -diff <= SubGrid)

\* C15: the value createPcmBlob stores is the truncation of s * 32768 when
\* that is in -32768..32767, and is not negative when s * 32768 is 32768.
C15_EncodeNeverWraps ==
  last.op = "createPcmBlob" =>
    \A k \in 1..Len(last.samples) :
      LET x == Trunc(last.samples[k], SubGrid)
      IN /\ (x >= -Int16Scale /\ x < Int16Scale) => last.int16[k] = x
         /\ x = Int16Scale => last.int16[k] >= 0

\* C21: a step lowers the next-start cursor only if it handles an
\* interrupted message or runs the teardown, which ends the call and puts the
\* cursor back to 0; no audio chunk, playback completion, transcription or
\* mute toggle lowers it.
C21_CursorMonotone ==
  [][nextStartTimeRef' < nextStartTimeRef =>
       \/ last'.op = "onmessage" /\ last'.interrupted
       \/ last'.op \in CleanupOps]_vars

\* The cursor is still ahead of 0 after the entries scheduled have played to
\* their end, the mute button was used and a transcription was logged.
C21_Witness ==
  /\ nextStartTimeRef > 0
  /\ sourcesRef = {}
  /\ isMuted
  /\ Len(transcriptions) > 0
  /\ last = Idle

\* C22: the first chunk handled after an interruption starts exactly at the
\* output clock at which it is handled, whatever was queued before: the
\* interruption leaves the cursor at 0, the cursor stays at 0 as long as no
\* chunk is scheduled, and a chunk that finds the cursor at 0 starts at the
\* clock.
C22_FirstChunkAfterInterrupt ==
  /\ []((last.op = "onmessage" /\ last.interrupted /\ ~last.raised)
         => nextStartTimeRef = 0)
  /\ [][(nextStartTimeRef = 0 /\ sourcesRef' \subseteq sourcesRef)
         => nextStartTimeRef' = 0]_vars
  /\ [][nextStartTimeRef = 0 =>
         \A s \in sourcesRef' \ sourcesRef :
           s.start = outputCtx[s.ctx].currentTime]_vars

\* A chunk handled at clock 1 that starts at 1, in a call that was never
\* torn down and in which an interruption had stopped an entry.
C22_Witness ==
  /\ last.op = "onmessage" /\ ~last.interrupted /\ last.now = 1
  /\ \E d \in 1..MaxDur :
       sourcesRef = {[ctx |-> last.call, start |-> 1, dur |-> d, stops |-> 0]}
  /\ maxStops = 1
  /\ \A i \in Calls : inputCtx[i].closeCalls = 0 /\ outputCtx[i].closeCalls = 0

\* C23: every capture frame delivered while the call is ACTIVE and the mute
\* flag is false results in one sendRealtimeInput call on its call's
\* session, made at once or as soon as the connect has resolved.
C23_OneSendPerUnmutedFrame ==
  (last.op = "frame" /\ status = CallStatus.ACTIVE /\ ~last.isMuted) =>
    /\ last.outcome \in {"sent", "deferred", "sendFailed"}
    /\ last.target = last.call

\* C24: at every handler boundary isModelSpeaking is true exactly when the
\* playback set is not empty.
C24_SpeakingIffPlaying ==
  isModelSpeaking <=> sourcesRef # {}

\* C25: a message that carries transcription deltas and no turnComplete
\* leaves the log as it was, in both components.
C25_DeltaLeavesLog ==
  [][\A i \in Calls, m \in TextMessages :
       (~m.turnComplete /\ LogMessage(i, m)) =>
         transcriptions' = transcriptions]_vars

\* C26: when a call attempt has ended in ERROR (missing configuration,
\* failed device acquisition, failed connect) the teardown has run: the
\* contexts the attempt created are closed, no session of it is open, and
\* the status has left ERROR for ENDED with the timer pending, or for what
\* followed.
C26_ErrorRunsTeardown ==
  /\ \A i \in Calls :
       pc[i] \in {"failed", "mediaFailed"} =>
         /\ inputCtx[i].state # "running"
         /\ outputCtx[i].state # "running"
         /\ conn[i].state \notin {"opening", "open"}
  /\ last.op \in {"failed", "catch"} =>
       (status = CallStatus.ENDED /\ timers > 0)

\* The handler that ran last is the End Call click or the onclose of the
\* latest call, and that call had reached ACTIVE.
EndedActiveCall ==
  /\ calls > 0
  /\ pc[calls] \in {"open", "stored"}
  /\ \/ last.op = "hangup"
     \/ last.op = "onclose" /\ last.call = calls

\* C27: after the hang-up or the close of a call that was ACTIVE the status
\* is ENDED, and unless a new call is started the status eventually is IDLE
\* and stays IDLE, given that pending timers fire.
C27_EndedThenIdle ==
  /\ [](EndedActiveCall => status = CallStatus.ENDED)
  /\ \A n \in Calls :
       (EndedActiveCall /\ calls = n)
         ~> ([](status = CallStatus.IDLE) \/ calls > n)

\* A call that was hung up while ACTIVE, whose session's onclose has been
\* handled and whose timers have fired: the status is IDLE.
C27_Witness ==
  /\ status = CallStatus.IDLE
  /\ timers = 0
  /\ calls > 0
  /\ pc[calls] = "stored"
  /\ conn[calls].closeCalls = 1
  /\ conn[calls].onclose
  /\ ~conn[calls].onerror

\* C28: a call attempt that was hung up while CONNECTING stays ended: a
\* session whose attempt's input context the teardown has closed does not
\* stay open, the capture pipeline is installed only on a running input
\* context, and the status becomes ACTIVE only from CONNECTING.
C28_HangUpWhileConnecting ==
  /\ [](\A i \in Calls :
          (pc[i] = "stored" /\ inputCtx[i].state = "closed")
            => conn[i].state # "open")
  /\ [][\A i \in Calls :
          (capture'[i].on /\ ~capture[i].on) =>
            /\ inputCtx[i].state = "running"
            /\ status = CallStatus.CONNECTING]_vars

\* C29: the onerror or onclose of an earlier call's session, handled while
\* a later call is CONNECTING or ACTIVE, leaves the later call as it is: its
\* session, its contexts, the playback set, the log and the status.
C29_StaleTerminalEventIgnored ==
  [][(/\ last'.op \in {"onerror", "onclose"}
      /\ last'.call < calls
      /\ status \in {CallStatus.CONNECTING, CallStatus.ACTIVE})
       => /\ status' = status
          /\ sessionRef' = sessionRef
          /\ inputAudioCtxRef' = inputAudioCtxRef
          /\ outputAudioCtxRef' = outputAudioCtxRef
          /\ inputCtx'[calls] = inputCtx[calls]
          /\ outputCtx'[calls] = outputCtx[calls]
          /\ conn'[calls] = conn[calls]
          /\ sourcesRef' = sourcesRef
          /\ transcriptions' = transcriptions]_vars

\* C30: after a run of the teardown no call holds an input resource: no
\* input context is running and no microphone stream is live.
C30_MicrophoneReleased ==
  last.op \in CleanupOps =>
    \A i \in Calls :
      /\ inputCtx[i].state # "running"
      /\ stream[i] # LiveStream

====
